---- MODULE Spec2Model ----
(***************************************************************************)
(* burrito: a chainable wrapper Burrito<A, T> = Burrito(Io<A, T>) around   *)
(* an IO handle.  Io<A, T> is Good(A, T) or Bad(io::Error).  The model     *)
(* threads wrappers through the operations of src/iomonad.rs and the       *)
(* combinators of src/lib.rs; the handles (files, sockets, the standard    *)
(* streams) are the environment: every call on a handle is logged, and its *)
(* outcome (how many bytes, or which error) is drawn by the action.        *)
(***************************************************************************)
EXTENDS Integers, Sequences, FiniteSets, TLC

\* ------------------------------------------------------------------ bounds
NumHandles == 2     \* handles a constructor can open (besides the std streams)
MaxLen == 2         \* longest input a handle or stdin holds
MaxN == 2           \* largest size argument (read n, consume amt, seek pos)
MaxCalls == 2       \* calls the handles receive before the model stops using them

\* ------------------------------------------------------------- vocabulary
NL == 10                         \* '\n'
Bytes == {1, NL}                 \* never 0: 0 is what vec![0; n] is filled with
Errors == {"E1", "E2"}           \* distinguishable io::Error values
NoErr == "none"
RW == 0                          \* the RealWorld value {stdin, stdout, stderr}
STDIN == -1
STDOUT == -2
STDERR == -3
NoHandle == 0 - 9
Files == 1..NumHandles
Streams == {STDIN, STDOUT, STDERR}
HandleIds == Files \cup Streams \cup {RW}
Slots == {"cur", "alt"}

Min(a, b) == IF a <= b THEN a ELSE b
Max(a, b) == IF a >= b THEN a ELSE b

SeqsUpTo(S, n) == UNION {[1..k -> S] : k \in 0..n}
Contents == SeqsUpTo(Bytes, MaxLen)
\* The buffers callers write: 1, 1 NL, 1 NL 1, ...
Ramp(k) == [i \in 1..k |-> IF i % 2 = 1 THEN 1 ELSE NL]
Bufs == {Ramp(k) : k \in 1..MaxN}

\* ----------------------------------------------------------------- values
\* The A of Io<A, T>: (), Vec<u8>, String, usize, u64.  One record shape.
Unit == [t |-> "unit", n |-> 0, s |-> <<>>]
VecU8(s) == [t |-> "bytes", n |-> 0, s |-> s]
Str(s) == [t |-> "string", n |-> 0, s |-> s]
Usize(n) == [t |-> "usize", n |-> n, s |-> <<>>]
U64(n) == [t |-> "u64", n |-> n, s |-> <<>>]
NoData == [t |-> "none", n |-> 0, s |-> <<>>]

\* io::Result<X>, X a value, a handle or a (value, handle) pair.
Res(ok, v, h, e) == [ok |-> ok, v |-> v, h |-> h, err |-> e]
OkH(h) == Res(TRUE, NoData, h, NoErr)
OkV(v) == Res(TRUE, v, NoHandle, NoErr)
OkVH(v, h) == Res(TRUE, v, h, NoErr)
Err(e) == Res(FALSE, NoData, NoHandle, e)
NoResult == Res(FALSE, NoData, NoHandle, NoErr)

\* enum Io<A, T> { Good(A, T), Bad(io::Error) }; ty is the static type T.
TyOf(h) == IF h = RW THEN "RealWorld" ELSE "File"
Good(a, h) == [tag |-> "Good", data |-> a, io |-> h, err |-> NoErr, ty |-> TyOf(h)]
Bad(e, ty) == [tag |-> "Bad", data |-> NoData, io |-> NoHandle, err |-> e, ty |-> ty]
None == [tag |-> "None", data |-> NoData, io |-> NoHandle, err |-> NoErr, ty |-> "none"]

VARIABLES
    input,      \* the bytes every opened handle, and stdin, reads from
    hnd,        \* HandleIds -> state of the handle
    bur,        \* Slots -> the live wrapper of the chain / of the alternative
    ncalls,     \* calls the handles have received
    last        \* the last library call: receiver, arguments, calls it made

vars == <<input, hnd, bur, ncalls, last>>

\* --------------------------------------------------------------- handles
\* st: unopened | open | dropped; pos: bytes of input consumed; filled: bytes
\* of the BufRead buffer not yet consumed; lock: whether the stream's lock is
\* held.
HInit == [st |-> "unopened", pos |-> 0, filled |-> 0, lock |-> FALSE]

\* The world an operation runs against: the handles and the log of the calls
\* the operation has made so far: the handle, the method, the error it
\* returned and the bytes it moved (read from the input or accepted by a
\* write).  io marks the calls that reach a file, socket or stream; the
\* others are constructor calls, lock traffic and RealWorld's own methods,
\* which forward to a stream.
World(hs) == [hnd |-> hs, log |-> <<>>]

Entry(h, m, e, bytes, io) == [h |-> h, m |-> m, err |-> e, bytes |-> bytes, io |-> io]
Log(w, h, m, e, bytes) ==
    [w EXCEPT !.log = Append(@, Entry(h, m, e, bytes, TRUE))]
Note(w, h, m, e) ==
    [w EXCEPT !.log = Append(@, Entry(h, m, e, <<>>, FALSE))]

Remaining(w, h) == Max(0, Len(input) - w.hnd[h].pos)

Take(s, n) == SubSeq(s, 1, Min(n, Len(s)))
Rest(w, h) == SubSeq(input, w.hnd[h].pos + 1, Len(input))

\* Rust drops a handle when the value owning it goes out of scope; the
\* standard streams are process-wide and are never closed.
Drop(w, h) ==
    IF h \in Files THEN [w EXCEPT !.hnd[h] = [HInit EXCEPT !.st = "dropped"]] ELSE w

\* An outcome the environment draws for one call on a handle: the error it
\* fails with (NoErr: it succeeds) and k, the bytes available / accepted.
NoOracle == [err |-> NoErr, k |-> 0]

Oracles == [err : Errors \cup {NoErr}, k : 0..Max(MaxLen, MaxN)]
Fails(o) == o.err # NoErr

Advance(w, h, c) ==
    [w EXCEPT !.hnd[h].pos = @ + c, !.hnd[h].filled = Max(@ - c, 0)]

\* r.read(&mut buf): fills a prefix of buf and reports its length.
h_read(w, h, buf, o) ==
    LET c == Min(Len(buf), Min(o.k, Remaining(w, h)))
        got == Rest(w, h)
    IN  IF Fails(o)
        THEN [ok |-> FALSE, n |-> 0, err |-> o.err, buf |-> buf,
              w |-> Log(w, h, "read", o.err, <<>>)]
        ELSE [ok |-> TRUE, n |-> c, err |-> NoErr,
              buf |-> [i \in 1..Len(buf) |-> IF i <= c THEN got[i] ELSE buf[i]],
              w |-> Log(Advance(w, h, c), h, "read", NoErr, Take(got, c))]

\* r.read_to_end(&mut buf): appends everything up to end of input to buf; a
\* failure leaves the first k bytes consumed.
h_read_to_end(w, h, buf, o) ==
    LET got == Rest(w, h)
    IN  IF Fails(o)
        THEN [ok |-> FALSE, n |-> 0, err |-> o.err, buf |-> buf \o Take(got, o.k),
              w |-> Log(Advance(w, h, Min(o.k, Len(got))), h, "read_to_end", o.err, Take(got, o.k))]
        ELSE [ok |-> TRUE, n |-> Len(got), err |-> NoErr, buf |-> buf \o got,
              w |-> Log(Advance(w, h, Len(got)), h, "read_to_end", NoErr, got)]

\* r.read_to_string(&mut buf): read_to_end, the bytes checked to be UTF-8
\* (invalid data is one of the errors the call can return).
h_read_to_string(w, h, buf, o) ==
    LET got == Rest(w, h)
    IN  IF Fails(o)
        THEN [ok |-> FALSE, n |-> 0, err |-> o.err, buf |-> buf,
              w |-> Log(Advance(w, h, Min(o.k, Len(got))), h, "read_to_string", o.err, Take(got, o.k))]
        ELSE [ok |-> TRUE, n |-> Len(got), err |-> NoErr, buf |-> buf \o got,
              w |-> Log(Advance(w, h, Len(got)), h, "read_to_string", NoErr, got)]

\* w.write(buf): accepts a prefix of buf and reports its length.
h_write(w, h, buf, o) ==
    IF Fails(o)
    THEN [ok |-> FALSE, n |-> 0, err |-> o.err, w |-> Log(w, h, "write", o.err, <<>>)]
    ELSE [ok |-> TRUE, n |-> Min(o.k, Len(buf)), err |-> NoErr,
          w |-> Log(w, h, "write", NoErr, Take(buf, o.k))]

\* w.write_all(buf): every byte of buf, or an error after the first k < len.
h_write_all(w, h, buf, o) ==
    IF Fails(o) /\ o.k < Len(buf)
    THEN [ok |-> FALSE, n |-> 0, err |-> o.err,
          w |-> Log(w, h, "write_all", o.err, Take(buf, o.k))]
    ELSE [ok |-> TRUE, n |-> Len(buf), err |-> NoErr,
          w |-> Log(w, h, "write_all", NoErr, buf)]

\* fmt::Arguments: the pieces of a format string with its arguments; what is
\* written is their concatenation.
RECURSIVE Format(_)
Format(fmt) == IF fmt = <<>> THEN <<>> ELSE Head(fmt) \o Format(Tail(fmt))

h_write_fmt(w, h, fmt, o) ==
    LET text == Format(fmt)
    IN  IF Fails(o) /\ o.k < Len(text)
        THEN [ok |-> FALSE, n |-> 0, err |-> o.err,
              w |-> Log(w, h, "write_fmt", o.err, Take(text, o.k))]
        ELSE [ok |-> TRUE, n |-> Len(text), err |-> NoErr,
              w |-> Log(w, h, "write_fmt", NoErr, text)]

\* io::SeekFrom::{Start(n), Current(n), End(n)}
SeekFroms == [whence : {"Start", "Current", "End"}, off : {0, 1}]
SeekTarget(w, h, pos) ==
    CASE pos.whence = "Start" -> pos.off
      [] pos.whence = "Current" -> w.hnd[h].pos + pos.off
      [] pos.whence = "End" -> Len(input) + pos.off

h_seek(w, h, pos, o) ==
    IF Fails(o)
    THEN [ok |-> FALSE, n |-> 0, err |-> o.err, w |-> Log(w, h, "seek", o.err, <<>>)]
    ELSE [ok |-> TRUE, n |-> SeekTarget(w, h, pos), err |-> NoErr,
          w |-> Log([w EXCEPT !.hnd[h].pos = SeekTarget(w, h, pos),
                              !.hnd[h].filled = 0], h, "seek", NoErr, <<>>)]

\* r.fill_buf(): buffers some of the input if the buffer is empty.
h_fill_buf(w, h, o) ==
    IF Fails(o)
    THEN [ok |-> FALSE, n |-> 0, err |-> o.err, w |-> Log(w, h, "fill_buf", o.err, <<>>)]
    ELSE [ok |-> TRUE, n |-> 0, err |-> NoErr,
          w |-> Log([w EXCEPT !.hnd[h].filled =
                        IF @ = 0 THEN Min(o.k, Remaining(w, h)) ELSE @],
                    h, "fill_buf", NoErr, <<>>)]

\* r.consume(amt): no result; at most the buffered bytes are consumed.
h_consume(w, h, amt) ==
    [w |-> Log(Advance(w, h, Min(amt, w.hnd[h].filled)), h, "consume", NoErr, <<>>)]

\* The bytes up to and including the first `byte`, or all of s without one.
RECURSIVE Until(_, _)
Until(s, byte) ==
    IF s = <<>> THEN <<>>
    ELSE IF Head(s) = byte THEN <<byte>>
    ELSE <<Head(s)>> \o Until(Tail(s), byte)

\* r.read_until(byte, &mut buf) and r.read_line(&mut buf)
h_read_until(w, h, byte, buf, o, m) ==
    LET got == Until(Rest(w, h), byte)
    IN  IF Fails(o)
        THEN [ok |-> FALSE, n |-> 0, err |-> o.err, buf |-> buf \o Take(got, o.k),
              w |-> Log(Advance(w, h, Min(o.k, Len(got))), h, m, o.err, Take(got, o.k))]
        ELSE [ok |-> TRUE, n |-> Len(got), err |-> NoErr, buf |-> buf \o got,
              w |-> Log(Advance(w, h, Len(got)), h, m, NoErr, got)]

\* stream.lock() and the drop of the guard at the end of the statement.
Lock(w, s) ==
    Note([w EXCEPT !.hnd[s].lock = TRUE], s, "lock", NoErr)
Unlock(w, s) ==
    Note([w EXCEPT !.hnd[s].lock = FALSE], s, "unlock", NoErr)

\* ------------------------------------------------------------- RealWorld
\* impl Read for RealWorld: self.stdin.lock().read(buf)
RealWorld_read(w, buf, o) ==
    LET r == h_read(Lock(w, STDIN), STDIN, buf, o)
    IN  [r EXCEPT !.w = Note(Unlock(r.w, STDIN), RW, "read", r.err)]

\* impl Write for RealWorld: self.stdout.lock().write(buf)
RealWorld_write(w, buf, o) ==
    LET r == h_write(Lock(w, STDOUT), STDOUT, buf, o)
    IN  [r EXCEPT !.w = Note(Unlock(r.w, STDOUT), RW, "write", r.err)]

\* RealWorld defines read and write only; the other Read / Write methods are
\* the traits' provided ones, which loop over read / write.  The oracle's k
\* is the number of bytes that pass before the stream fails.
OracleAt(o, done, all) ==
    IF Fails(o) /\ o.k <= done THEN [err |-> o.err, k |-> 0]
    ELSE [err |-> NoErr, k |-> IF Fails(o) THEN o.k - done ELSE all]

RECURSIVE ReadLoop(_, _, _)
ReadLoop(w, acc, o) ==
    LET probe == [i \in 1..(Remaining(w, STDIN) + 1) |-> 0]
        r == RealWorld_read(w, probe, OracleAt(o, Len(acc), Len(probe)))
    IN  IF ~r.ok THEN [ok |-> FALSE, n |-> 0, err |-> r.err, buf |-> acc, w |-> r.w]
        ELSE IF r.n = 0 THEN [ok |-> TRUE, n |-> Len(acc), err |-> NoErr, buf |-> acc, w |-> r.w]
        ELSE ReadLoop(r.w, acc \o Take(r.buf, r.n), o)

RealWorld_read_to_end(w, buf, o, m) ==
    LET r == ReadLoop(w, <<>>, o)
    IN  [r EXCEPT !.buf = buf \o r.buf, !.w = Note(r.w, RW, m, r.err)]

RECURSIVE WriteLoop(_, _, _, _)
WriteLoop(w, buf, done, o) ==
    IF buf = <<>> THEN [ok |-> TRUE, n |-> done, err |-> NoErr, w |-> w]
    ELSE LET r == RealWorld_write(w, buf, OracleAt(o, done, Len(buf)))
         IN  IF ~r.ok THEN [ok |-> FALSE, n |-> done, err |-> r.err, w |-> r.w]
             ELSE WriteLoop(r.w, SubSeq(buf, r.n + 1, Len(buf)), done + r.n, o)

RealWorld_write_all(w, buf, o) ==
    LET r == WriteLoop(w, buf, 0, o)
    IN  [r EXCEPT !.w = Note(r.w, RW, "write_all", r.err)]

\* Write::write_fmt: one write_all per piece, stopping at the first error.
RECURSIVE FmtLoop(_, _, _, _)
FmtLoop(w, fmt, done, o) ==
    IF fmt = <<>> THEN [ok |-> TRUE, n |-> done, err |-> NoErr, w |-> w]
    ELSE LET r == WriteLoop(w, Head(fmt), done, o)
         IN  IF ~r.ok THEN r ELSE FmtLoop(r.w, Tail(fmt), r.n, o)

RealWorld_write_fmt(w, fmt, o) ==
    LET r == FmtLoop(w, fmt, 0, o)
    IN  [r EXCEPT !.w = Note(r.w, RW, "write_fmt", r.err)]

\* The call `handle.method(..)` of a T: Read / T: Write handle.
T_read(w, h, buf, o) ==
    IF h = RW THEN RealWorld_read(w, buf, o) ELSE h_read(w, h, buf, o)
T_read_to_end(w, h, buf, o) ==
    IF h = RW THEN RealWorld_read_to_end(w, buf, o, "read_to_end")
    ELSE h_read_to_end(w, h, buf, o)
T_read_to_string(w, h, buf, o) ==
    IF h = RW THEN RealWorld_read_to_end(w, buf, o, "read_to_string")
    ELSE h_read_to_string(w, h, buf, o)
T_write(w, h, buf, o) ==
    IF h = RW THEN RealWorld_write(w, buf, o) ELSE h_write(w, h, buf, o)
T_write_all(w, h, buf, o) ==
    IF h = RW THEN RealWorld_write_all(w, buf, o) ELSE h_write_all(w, h, buf, o)
T_write_fmt(w, h, fmt, o) ==
    IF h = RW THEN RealWorld_write_fmt(w, fmt, o) ELSE h_write_fmt(w, h, fmt, o)

\* -------------------------------------------------------------- Io<A, T>
\* Every operation returns the new wrapper b and the world w after it.  A
\* handle bound in a match arm that does not move it into the result is
\* dropped at the end of the arm.
Zeros(n) == [i \in 1..n |-> 0]
truncate(buf, n) == IF n < Len(buf) THEN SubSeq(buf, 1, n) ELSE buf

read_no_truncate(self, n, w, o) ==
    IF self.tag = "Good"
    THEN LET r == T_read(w, self.io, Zeros(n), o)
         IN  IF r.ok THEN [b |-> Good(VecU8(r.buf), self.io), w |-> r.w]
             ELSE [b |-> Bad(r.err, self.ty), w |-> Drop(r.w, self.io)]
    ELSE [b |-> Bad(self.err, self.ty), w |-> w]

read(self, n, w, o) ==
    IF self.tag = "Good"
    THEN LET r == T_read(w, self.io, Zeros(n), o)
         IN  IF r.ok THEN [b |-> Good(VecU8(truncate(r.buf, r.n)), self.io), w |-> r.w]
             ELSE [b |-> Bad(r.err, self.ty), w |-> Drop(r.w, self.io)]
    ELSE [b |-> Bad(self.err, self.ty), w |-> w]

read_to_end_appends(self, w, o) ==
    IF self.tag = "Good"
    THEN LET r == T_read_to_end(w, self.io, self.data.s, o)
         IN  IF r.ok THEN [b |-> Good(VecU8(r.buf), self.io), w |-> r.w]
             ELSE [b |-> Bad(r.err, self.ty), w |-> Drop(r.w, self.io)]
    ELSE [b |-> Bad(self.err, self.ty), w |-> w]

read_to_end(self, w, o) ==
    IF self.tag = "Good"
    THEN LET r == T_read_to_end(w, self.io, <<>>, o)
         IN  IF r.ok THEN [b |-> Good(VecU8(r.buf), self.io), w |-> r.w]
             ELSE [b |-> Bad(r.err, self.ty), w |-> Drop(r.w, self.io)]
    ELSE [b |-> Bad(self.err, self.ty), w |-> w]

read_to_string(self, w, o) ==
    IF self.tag = "Good"
    THEN LET r == T_read_to_string(w, self.io, <<>>, o)
         IN  IF r.ok THEN [b |-> Good(Str(r.buf), self.io), w |-> r.w]
             ELSE [b |-> Bad(r.err, self.ty), w |-> Drop(r.w, self.io)]
    ELSE [b |-> Bad(self.err, self.ty), w |-> w]

write_retries(self, buf, w, o) ==
    IF self.tag = "Good"
    THEN LET r1 == T_write(w, self.io, buf, o)
             r == IF r1.ok THEN r1 ELSE T_write(r1.w, self.io, buf, o)
         IN  IF r.ok THEN [b |-> Good(Usize(r.n), self.io), w |-> r.w]
             ELSE [b |-> Bad(r.err, self.ty), w |-> Drop(r.w, self.io)]
    ELSE [b |-> Bad(self.err, self.ty), w |-> w]

write(self, buf, w, o) ==
    IF self.tag = "Good"
    THEN LET r == T_write(w, self.io, buf, o)
         IN  IF r.ok THEN [b |-> Good(Usize(r.n), self.io), w |-> r.w]
             ELSE [b |-> Bad(r.err, self.ty), w |-> Drop(r.w, self.io)]
    ELSE [b |-> Bad(self.err, self.ty), w |-> w]

write_all_masks_error(self, buf, w, o) ==
    IF self.tag = "Good"
    THEN LET r == T_write_all(w, self.io, buf, o)
         IN  IF r.ok THEN [b |-> Good(Unit, self.io), w |-> r.w]
             ELSE [b |-> Bad(r.err, self.ty), w |-> Drop(r.w, self.io)]
    ELSE [b |-> Bad("E1", self.ty), w |-> w]

write_all_single_write(self, buf, w, o) ==
    IF self.tag = "Good"
    THEN LET r == T_write(w, self.io, buf, o)
         IN  IF r.ok THEN [b |-> Good(Unit, self.io), w |-> r.w]
             ELSE [b |-> Bad(r.err, self.ty), w |-> Drop(r.w, self.io)]
    ELSE [b |-> Bad(self.err, self.ty), w |-> w]

write_all(self, buf, w, o) ==
    IF self.tag = "Good"
    THEN LET r == T_write_all(w, self.io, buf, o)
         IN  IF r.ok THEN [b |-> Good(Unit, self.io), w |-> r.w]
             ELSE [b |-> Bad(r.err, self.ty), w |-> Drop(r.w, self.io)]
    ELSE [b |-> Bad(self.err, self.ty), w |-> w]

write_fmt(self, fmt, w, o) ==
    IF self.tag = "Good"
    THEN LET r == T_write_fmt(w, self.io, fmt, o)
         IN  IF r.ok THEN [b |-> Good(Unit, self.io), w |-> r.w]
             ELSE [b |-> Bad(r.err, self.ty), w |-> Drop(r.w, self.io)]
    ELSE [b |-> Bad(self.err, self.ty), w |-> w]

seek(self, pos, w, o) ==
    IF self.tag = "Good"
    THEN LET r == h_seek(w, self.io, pos, o)
         IN  IF r.ok THEN [b |-> Good(U64(r.n), self.io), w |-> r.w]
             ELSE [b |-> Bad(r.err, self.ty), w |-> Drop(r.w, self.io)]
    ELSE [b |-> Bad(self.err, self.ty), w |-> w]

fill_buf_keeps_handle(self, w, o) ==
    IF self.tag = "Good"
    THEN LET r == h_fill_buf(w, self.io, o)
         IN  IF r.ok THEN [b |-> Good(Unit, self.io), w |-> r.w]
             ELSE [b |-> Bad(r.err, self.ty), w |-> r.w]
    ELSE [b |-> Bad(self.err, self.ty), w |-> w]

fill_buf(self, w, o) ==
    IF self.tag = "Good"
    THEN LET r == h_fill_buf(w, self.io, o)
         IN  IF r.ok THEN [b |-> Good(Unit, self.io), w |-> r.w]
             ELSE [b |-> Bad(r.err, self.ty), w |-> Drop(r.w, self.io)]
    ELSE [b |-> Bad(self.err, self.ty), w |-> w]

consume_refills(self, amt, w) ==
    IF self.tag = "Good"
    THEN [b |-> Good(Unit, self.io),
          w |-> h_consume(h_fill_buf(w, self.io, NoOracle).w, self.io, amt).w]
    ELSE [b |-> Bad(self.err, self.ty), w |-> w]

consume(self, amt, w) ==
    IF self.tag = "Good"
    THEN [b |-> Good(Unit, self.io), w |-> h_consume(w, self.io, amt).w]
    ELSE [b |-> Bad(self.err, self.ty), w |-> w]

read_until_strips(self, byte, w, o) ==
    IF self.tag = "Good"
    THEN LET r == h_read_until(w, self.io, byte, <<>>, o, "read_until")
         IN  IF r.ok
             THEN [b |-> Good(VecU8(SelectSeq(r.buf, LAMBDA x : x # byte)), self.io),
                   w |-> r.w]
             ELSE [b |-> Bad(r.err, self.ty), w |-> Drop(r.w, self.io)]
    ELSE [b |-> Bad(self.err, self.ty), w |-> w]

read_until(self, byte, w, o) ==
    IF self.tag = "Good"
    THEN LET r == h_read_until(w, self.io, byte, <<>>, o, "read_until")
         IN  IF r.ok THEN [b |-> Good(VecU8(r.buf), self.io), w |-> r.w]
             ELSE [b |-> Bad(r.err, self.ty), w |-> Drop(r.w, self.io)]
    ELSE [b |-> Bad(self.err, self.ty), w |-> w]

read_line(self, w, o) ==
    IF self.tag = "Good"
    THEN LET r == h_read_until(w, self.io, NL, <<>>, o, "read_line")
         IN  IF r.ok THEN [b |-> Good(Str(r.buf), self.io), w |-> r.w]
             ELSE [b |-> Bad(r.err, self.ty), w |-> Drop(r.w, self.io)]
    ELSE [b |-> Bad(self.err, self.ty), w |-> w]

\* io::Split<T> and io::Lines<T>: the sequence owns the handle; byte is the
\* delimiter.  The value of the wrapper is not part of it.
SplitSeq(byte) == [t |-> "split", n |-> byte, s |-> <<>>]
LinesSeq == [t |-> "lines", n |-> NL, s |-> <<>>]

split_eager(self, byte, w) ==
    IF self.tag = "Good"
    THEN [res |-> OkVH(SplitSeq(byte), self.io),
          w |-> h_read_until(w, self.io, byte, <<>>, NoOracle, "read_until").w]
    ELSE [res |-> Err(self.err), w |-> w]

split(self, byte, w) ==
    IF self.tag = "Good"
    THEN [res |-> OkVH(SplitSeq(byte), self.io), w |-> w]
    ELSE [res |-> Err(self.err), w |-> w]

lines(self, w) ==
    IF self.tag = "Good"
    THEN [res |-> OkVH(LinesSeq, self.io), w |-> w]
    ELSE [res |-> Err(self.err), w |-> w]

\* Advancing the sequence: one read_until on its handle; the item is the
\* piece without its delimiter, the error, or nothing at the end of input.
Strip(s, byte) ==
    IF s # <<>> /\ s[Len(s)] = byte THEN SubSeq(s, 1, Len(s) - 1) ELSE s

seq_next(it, w, o) ==
    LET r == h_read_until(w, it.h, it.v.n, <<>>, o, "read_until")
    IN  [item |-> IF ~r.ok THEN Err(r.err)
                  ELSE IF r.n = 0 THEN NoResult
                  ELSE OkV(IF it.v.t = "lines" THEN Str(Strip(r.buf, it.v.n))
                           ELSE VecU8(Strip(r.buf, it.v.n))),
         w |-> r.w]

\* impl<A> Io<A, RealWorld>: the stream's lock guard is a temporary of the
\* statement that makes the call, dropped when the statement ends.
print_line_keeps_lock(self, buf, w, o) ==
    IF self.tag = "Good"
    THEN LET r == h_write_all(Lock(w, STDOUT), STDOUT, buf \o <<NL>>, o)
         IN  IF r.ok THEN [b |-> Good(Unit, self.io), w |-> r.w]
             ELSE [b |-> Bad(r.err, self.ty), w |-> Drop(r.w, self.io)]
    ELSE [b |-> Bad(self.err, self.ty), w |-> w]

print_line_two_locks(self, buf, w, o) ==
    IF self.tag = "Good"
    THEN LET r1 == h_write_all(Lock(w, STDOUT), STDOUT, buf, o)
             w1 == Unlock(r1.w, STDOUT)
             r2 == h_write_all(Lock(w1, STDOUT), STDOUT, <<NL>>, OracleAt(o, Len(buf), 1))
             w2 == Unlock(r2.w, STDOUT)
         IN  IF ~r1.ok THEN [b |-> Bad(r1.err, self.ty), w |-> Drop(w1, self.io)]
             ELSE IF r2.ok THEN [b |-> Good(Unit, self.io), w |-> w2]
             ELSE [b |-> Bad(r2.err, self.ty), w |-> Drop(w2, self.io)]
    ELSE [b |-> Bad(self.err, self.ty), w |-> w]

print_line(self, buf, w, o) ==
    IF self.tag = "Good"
    THEN LET r == h_write_all(Lock(w, STDOUT), STDOUT, buf \o <<NL>>, o)
             w1 == Unlock(r.w, STDOUT)
         IN  IF r.ok THEN [b |-> Good(Unit, self.io), w |-> w1]
             ELSE [b |-> Bad(r.err, self.ty), w |-> Drop(w1, self.io)]
    ELSE [b |-> Bad(self.err, self.ty), w |-> w]

\* Stdin::read_line takes the lock itself.
rw_read_line(self, w, o) ==
    IF self.tag = "Good"
    THEN LET r == h_read_until(Lock(w, STDIN), STDIN, NL, <<>>, o, "read_line")
             w1 == Unlock(r.w, STDIN)
         IN  IF r.ok THEN [b |-> Good(Str(r.buf), self.io), w |-> w1]
             ELSE [b |-> Bad(r.err, self.ty), w |-> Drop(w1, self.io)]
    ELSE [b |-> Bad(self.err, self.ty), w |-> w]

write_to_err(self, buf, w, o) ==
    IF self.tag = "Good"
    THEN LET r == h_write(Lock(w, STDERR), STDERR, buf, o)
             w1 == Unlock(r.w, STDERR)
         IN  IF r.ok THEN [b |-> Good(Usize(r.n), self.io), w |-> w1]
             ELSE [b |-> Bad(r.err, self.ty), w |-> Drop(w1, self.io)]
    ELSE [b |-> Bad(self.err, self.ty), w |-> w]

write_all_to_err_on_stdout(self, buf, w, o) ==
    IF self.tag = "Good"
    THEN LET r == h_write_all(Lock(w, STDOUT), STDOUT, buf, o)
             w1 == Unlock(r.w, STDOUT)
         IN  IF r.ok THEN [b |-> Good(Unit, self.io), w |-> w1]
             ELSE [b |-> Bad(r.err, self.ty), w |-> Drop(w1, self.io)]
    ELSE [b |-> Bad(self.err, self.ty), w |-> w]

write_all_to_err(self, buf, w, o) ==
    IF self.tag = "Good"
    THEN LET r == h_write_all(Lock(w, STDERR), STDERR, buf, o)
             w1 == Unlock(r.w, STDERR)
         IN  IF r.ok THEN [b |-> Good(Unit, self.io), w |-> w1]
             ELSE [b |-> Bad(r.err, self.ty), w |-> Drop(w1, self.io)]
    ELSE [b |-> Bad(self.err, self.ty), w |-> w]

write_fmt_to_err(self, fmt, w, o) ==
    IF self.tag = "Good"
    THEN LET r == h_write_fmt(Lock(w, STDERR), STDERR, fmt, o)
             w1 == Unlock(r.w, STDERR)
         IN  IF r.ok THEN [b |-> Good(Unit, self.io), w |-> w1]
             ELSE [b |-> Bad(r.err, self.ty), w |-> Drop(w1, self.io)]
    ELSE [b |-> Bad(self.err, self.ty), w |-> w]

\* ------------------------------------------------------------ Burrito<A, T>
\* Burrito(Io<A, T>) is a newtype: a Burrito is its Io value.

\* A handle constructor (File::create, T::from_path, T::from_addr, the
\* closure given to wrap_func): opens the next unopened handle or fails.
NextFree(w) == CHOOSE h \in Files :
    /\ w.hnd[h].st = "unopened"
    /\ \A g \in Files : w.hnd[g].st = "unopened" => h <= g
HasFree(w) == \E h \in Files : w.hnd[h].st = "unopened"

Open(w, m, o) ==
    IF Fails(o)
    THEN [res |-> Err(o.err),
          w |-> Note(w, NoHandle, m, o.err)]
    ELSE LET h == NextFree(w)
         IN  [res |-> OkH(h),
              w |-> Note([w EXCEPT !.hnd[h].st = "open"], h, m, NoErr)]

wrap(in) ==
    IF in.ok THEN Good(Unit, in.h) ELSE Bad(in.err, "File")

wrap_func_retries(w, o) ==
    LET c1 == Open(w, "open", o)
        c == IF c1.res.ok THEN c1 ELSE Open(c1.w, "open", o)
    IN  [b |-> IF c.res.ok THEN Good(Unit, c.res.h) ELSE Bad(c.res.err, "File"),
         w |-> c.w]

wrap_func(w, o) ==
    LET c == Open(w, "open", o)
    IN  [b |-> IF c.res.ok THEN Good(Unit, c.res.h) ELSE Bad(c.res.err, "File"),
         w |-> c.w]

from_path(w, o) ==
    LET c == Open(w, "from_path", o)
    IN  [b |-> IF c.res.ok THEN Good(Unit, c.res.h) ELSE Bad(c.res.err, "File"),
         w |-> c.w]

from_addr(w, o) ==
    LET c == Open(w, "from_addr", o)
    IN  [b |-> IF c.res.ok THEN Good(Unit, c.res.h) ELSE Bad(c.res.err, "File"),
         w |-> c.w]

\* burrito() = Burrito::default() = Good((), RealWorld::default())
burrito == Good(Unit, RW)

\* A wrapper that goes out of scope takes its handle with it.
DropB(w, b) == IF b.tag = "Good" THEN Drop(w, b.io) ELSE w

and_short_circuit(self, alternative, w) ==
    IF self.tag = "Good"
    THEN [b |-> alternative, w |-> Drop(w, self.io)]
    ELSE [b |-> Bad(self.err, alternative.ty),
          w |-> IF alternative.tag = "Good" /\ alternative.io \in Files
                THEN [w EXCEPT !.hnd[alternative.io] = HInit] ELSE w]

and_keeps_alt_error(self, alternative, w) ==
    IF self.tag = "Good"
    THEN [b |-> alternative, w |-> Drop(w, self.io)]
    ELSE IF alternative.tag = "Bad" THEN [b |-> alternative, w |-> w]
    ELSE [b |-> Bad(self.err, alternative.ty), w |-> DropB(w, alternative)]

and_leaks_alternative(self, alternative, w) ==
    IF self.tag = "Good"
    THEN [b |-> alternative, w |-> Drop(w, self.io)]
    ELSE [b |-> Bad(self.err, alternative.ty), w |-> w]

and(self, alternative, w) ==
    IF self.tag = "Good"
    THEN [b |-> alternative, w |-> Drop(w, self.io)]
    ELSE [b |-> Bad(self.err, alternative.ty), w |-> DropB(w, alternative)]

or_prefers_alternative(self, alternative, w) ==
    IF self.tag = "Bad"
    THEN [b |-> alternative, w |-> w]
    ELSE IF alternative.tag = "Good" THEN [b |-> alternative, w |-> Drop(w, self.io)]
    ELSE [b |-> self, w |-> w]

or_swaps_handle(self, alternative, w) ==
    IF self.tag = "Bad"
    THEN [b |-> alternative, w |-> w]
    ELSE IF alternative.tag = "Good"
         THEN [b |-> Good(self.data, alternative.io), w |-> Drop(w, self.io)]
         ELSE [b |-> self, w |-> w]

or(self, alternative, w) ==
    IF self.tag = "Bad"
    THEN [b |-> alternative, w |-> w]
    ELSE [b |-> self, w |-> DropB(w, alternative)]

\* The closures a caller hands to and_then, after the module documentation:
\*   "id"    |_, burrito| burrito
\*   "echo"  |echo, burrito| burrito.print_line(&echo)   (write_all on a file)
\*   "fail"  |_, _| Burrito::wrap(Err(e))
NoFn == [k |-> "", e |-> NoErr]
AndThenFns == {[k |-> "id", e |-> NoErr], [k |-> "echo", e |-> NoErr]}
              \cup {[k |-> "fail", e |-> e] : e \in Errors}
Invoke(data, b, e, r) ==
    [data |-> data, b |-> b, err |-> e, ret |-> r.b, calls |-> r.w.log]

CallAndThenFn(f, data, b, w, o) ==
    CASE f.k = "id" -> [b |-> b, w |-> w]
      [] f.k = "echo" -> IF b.ty = "RealWorld" THEN print_line(b, data.s, w, o)
                         ELSE write_all(b, data.s, w, o)
      [] f.k = "fail" -> [b |-> Bad(f.e, b.ty), w |-> DropB(w, b)]

and_then_eager(self, f, w, o) ==
    LET arg == IF self.tag = "Good" THEN Good(Unit, self.io) ELSE Bad(self.err, self.ty)
        r == CallAndThenFn(f, self.data, arg, w, o)
    IN  [b |-> r.b, w |-> r.w, finv |-> <<Invoke(self.data, arg, NoErr, r)>>]

and_then(self, f, w, o) ==
    IF self.tag = "Good"
    THEN LET arg == Good(Unit, self.io)
             r == CallAndThenFn(f, self.data, arg, w, o)
         IN  [b |-> r.b, w |-> r.w, finv |-> <<Invoke(self.data, arg, NoErr, r)>>]
    ELSE [b |-> Bad(self.err, self.ty), w |-> w, finv |-> <<>>]

\* The closures a caller hands to or_else:
\*   "rethrow"  |err| Burrito::wrap(Err(err))
\*   "reopen"   |_| Burrito::wrap_func(..) / burrito()
\*   "other"    |_| Burrito::wrap(Err(e))
OrElseFns == {[k |-> "rethrow", e |-> NoErr], [k |-> "reopen", e |-> NoErr]}
             \cup {[k |-> "other", e |-> e] : e \in Errors}

CallOrElseFn(f, err, ty, w, o) ==
    CASE f.k = "rethrow" -> [b |-> Bad(err, ty), w |-> w]
      [] f.k = "reopen" -> IF ty = "RealWorld" THEN [b |-> burrito, w |-> w]
                           ELSE wrap_func(w, o)
      [] f.k = "other" -> [b |-> Bad(f.e, ty), w |-> w]

or_else_drops_error(self, f, w, o) ==
    IF self.tag = "Bad"
    THEN LET r == CallOrElseFn(f, "E1", self.ty, w, o)
         IN  [b |-> r.b, w |-> r.w, finv |-> <<Invoke(NoData, None, "E1", r)>>]
    ELSE [b |-> self, w |-> w, finv |-> <<>>]

or_else(self, f, w, o) ==
    IF self.tag = "Bad"
    THEN LET r == CallOrElseFn(f, self.err, self.ty, w, o)
         IN  [b |-> r.b, w |-> r.w, finv |-> <<Invoke(NoData, None, self.err, r)>>]
    ELSE [b |-> self, w |-> w, finv |-> <<>>]

ignore_keeps_data(self, w) ==
    IF self.tag = "Good"
    THEN [b |-> self, w |-> w]
    ELSE [b |-> Bad(self.err, self.ty), w |-> w]

ignore(self, w) ==
    IF self.tag = "Good"
    THEN [b |-> Good(Unit, self.io), w |-> w]
    ELSE [b |-> Bad(self.err, self.ty), w |-> w]

is_good(self) == self.tag = "Good"
is_bad(self) == ~is_good(self)

ok(self, w) ==
    IF self.tag = "Good"
    THEN [res |-> OkVH(self.data, self.io), w |-> w]
    ELSE [res |-> Err(self.err), w |-> w]

to_data_unit(self, w) ==
    IF self.tag = "Good"
    THEN [res |-> OkV(Unit), w |-> Drop(w, self.io)]
    ELSE [res |-> Err(self.err), w |-> w]

to_data(self, w) ==
    IF self.tag = "Good"
    THEN [res |-> OkV(self.data), w |-> Drop(w, self.io)]
    ELSE [res |-> Err(self.err), w |-> w]

to_handle(self, w) ==
    IF self.tag = "Good"
    THEN [res |-> OkH(self.io), w |-> w]
    ELSE [res |-> Err(self.err), w |-> w]

\* ---------------------------------------------------------------- the chain
NoArgs == [n |-> 0, buf |-> <<>>, fmt |-> <<>>, wh |-> "", f |-> NoFn]
Fmts == {<<Ramp(1)>>, <<Ramp(1), <<NL>>>>}

\* The state after start-up, with what the files and stdin hold given.
Start(content) ==
    /\ input = content
    /\ hnd = [h \in HandleIds |->
                IF h \in Files THEN HInit ELSE [HInit EXCEPT !.st = "open"]]
    /\ bur = [s \in Slots |-> None]
    /\ ncalls = 0
    /\ last = [op |-> "init", slot |-> "cur", recv |-> None, alt |-> None,
               a |-> NoArgs, got |-> 0, finv |-> <<>>, calls |-> <<>>,
               in |-> NoResult, res |-> NoResult]

\* A file and a stdin that hold the line 1 NL (and so on, as MaxLen grows).
Init == Start(Ramp(MaxLen))

\* What every step records of the call it models: the receiver, the
\* arguments, the bytes the handle had for it (got), the closure invocations,
\* the calls made on handles, and for a terminal conversion its result.
Record(op, s, recv, alt, a, o, finv, w, in, res) ==
    /\ hnd' = w.hnd
    /\ ncalls' = ncalls + Cardinality({i \in DOMAIN w.log : w.log[i].io})
    /\ last' = [op |-> op, slot |-> s, recv |-> recv, alt |-> alt, a |-> a,
                got |-> IF recv.tag = "Good" /\ ~Fails(o) THEN o.k ELSE 0,
                finv |-> finv, calls |-> w.log, in |-> in, res |-> res]

\* The outcomes the environment can give a call made through wrapper b: none
\* is drawn for a Bad wrapper, which has no handle to call.  k counts for a
\* failing call only where the call can fail partway.
OraclesFor(b, kmax, partial) ==
    IF b.tag = "Good"
    THEN {o \in Oracles : o.k <= kmax /\ (Fails(o) /\ ~partial => o.k = 0)}
    ELSE {NoOracle}

\* The handle whose input a read through wrapper b consumes.
Source(b) == IF b.io = RW THEN STDIN ELSE b.io
Left(b) == IF b.tag = "Good" THEN Remaining(World(hnd), Source(b)) ELSE 0

\* The model stops calling handles once they have received MaxCalls calls.
Budget(b) == b.tag = "Good" => ncalls < MaxCalls

CtorOracles == {o \in Oracles : o.k = 0 /\ (~Fails(o) => HasFree(World(hnd)))}

\* In x.and(alt) and x.or(alt) the receiver x is evaluated first, then the
\* argument alt, then the call is made: slot "alt" is filled only while a
\* receiver waits in "cur", and the receiver's next step is the and / or.
Live(s) == bur[s] # None
Empty(s) == bur[s] = None /\ (s = "alt" => Live("cur"))
Turn(s) == Live(s) /\ (s = "cur" => ~Live("alt"))
IsFile(s) == bur[s].ty = "File"
IsRW(s) == bur[s].ty = "RealWorld"

\* Burrito::wrap(File::create(path)): the caller has built the io::Result.
Wrap(s) ==
    /\ Empty(s)
    /\ \E o \in CtorOracles :
         LET c == Open(World(hnd), "open", o)
         IN  /\ bur' = [bur EXCEPT ![s] = wrap(c.res)]
             /\ Record("wrap", s, None, None, NoArgs, o, <<>>, World(c.w.hnd),
                       c.res, NoResult)
    /\ UNCHANGED input

Build(op, s, r, o) ==
    /\ bur' = [bur EXCEPT ![s] = r.b]
    /\ Record(op, s, None, None, NoArgs, o, <<>>, r.w, NoResult, NoResult)
    /\ UNCHANGED input

WrapFunc(s) ==
    Empty(s) /\ \E o \in CtorOracles : Build("wrap_func", s, wrap_func(World(hnd), o), o)

FromPath(s) ==
    Empty(s) /\ \E o \in CtorOracles : Build("from_path", s, from_path(World(hnd), o), o)

FromAddr(s) ==
    Empty(s) /\ \E o \in CtorOracles : Build("from_addr", s, from_addr(World(hnd), o), o)

Default(s) ==
    Empty(s) /\ Build("burrito", s, [b |-> burrito, w |-> World(hnd)], NoOracle)

\* One operation of the chain on the wrapper in slot s: r is what the
\* operation returned.
Chain(op, s, r, a, o) ==
    /\ bur' = [bur EXCEPT ![s] = r.b]
    /\ Record(op, s, bur[s], None, a, o, <<>>, r.w, NoResult, NoResult)
    /\ UNCHANGED input

Read(s) ==
    /\ Turn(s) /\ Budget(bur[s])
    /\ \E n \in 1..MaxN : \E o \in OraclesFor(bur[s], Left(bur[s]), FALSE) :
         Chain("read", s, read(bur[s], n, World(hnd), o), [NoArgs EXCEPT !.n = n], o)

ReadToEnd(s) ==
    /\ Turn(s) /\ Budget(bur[s])
    /\ \E o \in OraclesFor(bur[s], Left(bur[s]), TRUE) :
         Chain("read_to_end", s, read_to_end(bur[s], World(hnd), o), NoArgs, o)

ReadToString(s) ==
    /\ Turn(s) /\ Budget(bur[s])
    /\ \E o \in OraclesFor(bur[s], Left(bur[s]), TRUE) :
         Chain("read_to_string", s, read_to_string(bur[s], World(hnd), o), NoArgs, o)

Write(s) ==
    /\ Turn(s) /\ Budget(bur[s])
    /\ \E buf \in Bufs : \E o \in OraclesFor(bur[s], Len(buf), FALSE) :
         Chain("write", s, write(bur[s], buf, World(hnd), o), [NoArgs EXCEPT !.buf = buf], o)

WriteAll(s) ==
    /\ Turn(s) /\ Budget(bur[s])
    /\ \E buf \in Bufs : \E o \in OraclesFor(bur[s], Len(buf), TRUE) :
         Chain("write_all", s, write_all(bur[s], buf, World(hnd), o),
               [NoArgs EXCEPT !.buf = buf], o)

WriteFmt(s) ==
    /\ Turn(s) /\ Budget(bur[s])
    /\ \E fmt \in Fmts : \E o \in OraclesFor(bur[s], Len(Format(fmt)), TRUE) :
         Chain("write_fmt", s, write_fmt(bur[s], fmt, World(hnd), o),
               [NoArgs EXCEPT !.fmt = fmt], o)

Seek(s) ==
    /\ Turn(s) /\ IsFile(s) /\ Budget(bur[s])
    /\ \E pos \in SeekFroms : \E o \in OraclesFor(bur[s], 0, FALSE) :
         /\ bur[s].tag = "Good" => SeekTarget(World(hnd), bur[s].io, pos) <= Len(input)
         /\ Chain("seek", s, seek(bur[s], pos, World(hnd), o),
                  [NoArgs EXCEPT !.n = pos.off, !.wh = pos.whence], o)

FillBuf(s) ==
    /\ Turn(s) /\ IsFile(s) /\ Budget(bur[s])
    /\ \E o \in OraclesFor(bur[s], Left(bur[s]), FALSE) :
         Chain("fill_buf", s, fill_buf(bur[s], World(hnd), o), NoArgs, o)

Consume(s) ==
    /\ Turn(s) /\ IsFile(s) /\ Budget(bur[s])
    /\ \E amt \in 0..MaxN :
         Chain("consume", s, consume(bur[s], amt, World(hnd)),
               [NoArgs EXCEPT !.n = amt], NoOracle)

ReadUntil(s) ==
    /\ Turn(s) /\ IsFile(s) /\ Budget(bur[s])
    /\ \E byte \in Bytes : \E o \in OraclesFor(bur[s], Left(bur[s]), TRUE) :
         Chain("read_until", s, read_until(bur[s], byte, World(hnd), o),
               [NoArgs EXCEPT !.n = byte], o)

\* On a Burrito<A, RealWorld> read_line is the inherent method on stdin.
ReadLine(s) ==
    /\ Turn(s) /\ Budget(bur[s])
    /\ \E o \in OraclesFor(bur[s], Left(bur[s]), TRUE) :
         Chain("read_line", s,
               IF IsRW(s) THEN rw_read_line(bur[s], World(hnd), o)
               ELSE read_line(bur[s], World(hnd), o), NoArgs, o)

PrintLine(s) ==
    /\ Turn(s) /\ IsRW(s) /\ Budget(bur[s])
    /\ \E buf \in Bufs \cup {<<>>} : \E o \in OraclesFor(bur[s], Len(buf) + 1, TRUE) :
         Chain("print_line", s, print_line(bur[s], buf, World(hnd), o),
               [NoArgs EXCEPT !.buf = buf], o)

WriteToErr(s) ==
    /\ Turn(s) /\ IsRW(s) /\ Budget(bur[s])
    /\ \E buf \in Bufs : \E o \in OraclesFor(bur[s], Len(buf), FALSE) :
         Chain("write_to_err", s, write_to_err(bur[s], buf, World(hnd), o),
               [NoArgs EXCEPT !.buf = buf], o)

WriteAllToErr(s) ==
    /\ Turn(s) /\ IsRW(s) /\ Budget(bur[s])
    /\ \E buf \in Bufs : \E o \in OraclesFor(bur[s], Len(buf), TRUE) :
         Chain("write_all_to_err", s, write_all_to_err(bur[s], buf, World(hnd), o),
               [NoArgs EXCEPT !.buf = buf], o)

WriteFmtToErr(s) ==
    /\ Turn(s) /\ IsRW(s) /\ Budget(bur[s])
    /\ \E fmt \in Fmts : \E o \in OraclesFor(bur[s], Len(Format(fmt)), TRUE) :
         Chain("write_fmt_to_err", s, write_fmt_to_err(bur[s], fmt, World(hnd), o),
               [NoArgs EXCEPT !.fmt = fmt], o)

Ignore(s) ==
    /\ Turn(s)
    /\ Chain("ignore", s, ignore(bur[s], World(hnd)), NoArgs, NoOracle)

\* x.and(alt), x.or(alt): alt is an argument, a wrapper the caller has built.
And ==
    /\ Live("cur") /\ Live("alt")
    /\ LET r == and(bur["cur"], bur["alt"], World(hnd))
       IN  /\ bur' = [cur |-> r.b, alt |-> None]
           /\ Record("and", "cur", bur["cur"], bur["alt"], NoArgs, NoOracle, <<>>,
                     r.w, NoResult, NoResult)
    /\ UNCHANGED input

\* or wants an alternative of the receiver's own type.
Or ==
    /\ Live("cur") /\ Live("alt")
    /\ bur["cur"].ty = bur["alt"].ty
    /\ LET r == or(bur["cur"], bur["alt"], World(hnd))
       IN  /\ bur' = [cur |-> r.b, alt |-> None]
           /\ Record("or", "cur", bur["cur"], bur["alt"], NoArgs, NoOracle, <<>>,
                     r.w, NoResult, NoResult)
    /\ UNCHANGED input

AndThen(s) ==
    /\ Turn(s)
    /\ \E f \in AndThenFns :
         /\ f.k = "echo" =>
              /\ Budget(bur[s])
              /\ bur[s].tag = "Good" => bur[s].data.t \in {"bytes", "string"}
         /\ \E o \in IF f.k = "echo" /\ bur[s].tag = "Good"
                     THEN OraclesFor(bur[s], Len(bur[s].data.s), TRUE) ELSE {NoOracle} :
              LET r == and_then(bur[s], f, World(hnd), o)
              IN  /\ bur' = [bur EXCEPT ![s] = r.b]
                  /\ Record("and_then", s, bur[s], None, [NoArgs EXCEPT !.f = f], o,
                            r.finv, r.w, NoResult, NoResult)
    /\ UNCHANGED input

OrElse(s) ==
    /\ Turn(s)
    /\ \E f \in OrElseFns :
         \E o \in IF f.k = "reopen" /\ bur[s].tag = "Bad" /\ bur[s].ty = "File"
                  THEN CtorOracles ELSE {NoOracle} :
              LET r == or_else(bur[s], f, World(hnd), o)
              IN  /\ bur' = [bur EXCEPT ![s] = r.b]
                  /\ Record("or_else", s, bur[s], None, [NoArgs EXCEPT !.f = f], o,
                            r.finv, r.w, NoResult, NoResult)
    /\ UNCHANGED input

\* The terminal conversions consume the wrapper.
Extract_by_reference(op, s, r) ==
    /\ bur' = bur
    /\ Record(op, s, bur[s], None, NoArgs, NoOracle, <<>>, r.w, NoResult, r.res)
    /\ UNCHANGED input

Extract(op, s, r) ==
    /\ bur' = [bur EXCEPT ![s] = None]
    /\ Record(op, s, bur[s], None, NoArgs, NoOracle, <<>>, r.w, NoResult, r.res)
    /\ UNCHANGED input

ToOk(s) == Turn(s) /\ Extract("ok", s, ok(bur[s], World(hnd)))
ToData(s) == Turn(s) /\ Extract("to_data", s, to_data(bur[s], World(hnd)))
ToHandle(s) == Turn(s) /\ Extract("to_handle", s, to_handle(bur[s], World(hnd)))

\* The chain runs in slot "cur"; the caller builds the alternative of an
\* and / or in slot "alt", with a constructor and reads chained on it.
Next ==
    \/ And
    \/ Or
    \/ \E s \in Slots :
         \/ Wrap(s) \/ WrapFunc(s) \/ FromPath(s) \/ FromAddr(s) \/ Default(s)
         \/ Read(s)
    \/ ReadToEnd("cur") \/ ReadToString("cur")
    \/ Write("cur") \/ WriteAll("cur") \/ WriteFmt("cur")
    \/ Seek("cur") \/ FillBuf("cur") \/ Consume("cur")
    \/ ReadUntil("cur") \/ ReadLine("cur")
    \/ PrintLine("cur") \/ WriteToErr("cur") \/ WriteAllToErr("cur")
    \/ WriteFmtToErr("cur")
    \/ Ignore("cur") \/ AndThen("cur") \/ OrElse("cur")
    \/ ToOk("cur") \/ ToData("cur") \/ ToHandle("cur")

Spec == Init /\ [][Next]_vars

\* split and lines consume the wrapper and hand the caller a sequence.
Split(s) ==
    /\ Turn(s) /\ IsFile(s)
    /\ \E byte \in Bytes :
         LET r == split(bur[s], byte, World(hnd))
         IN  /\ bur' = [bur EXCEPT ![s] = None]
             /\ Record("split", s, bur[s], None, [NoArgs EXCEPT !.n = byte], NoOracle,
                       <<>>, r.w, NoResult, r.res)
    /\ UNCHANGED input

Lines(s) ==
    /\ Turn(s) /\ IsFile(s)
    /\ Extract("lines", s, lines(bur[s], World(hnd)))

\* The caller advances the sequence the last call returned or advanced;
\* last.in is the item it yields, last.res the sequence.
SeqNext ==
    /\ last.op \in {"split", "lines", "next"}
    /\ last.res.ok
    /\ ncalls < MaxCalls
    /\ \E o \in OraclesFor(Good(Unit, last.res.h), Remaining(World(hnd), last.res.h), TRUE) :
         LET r == seq_next(last.res, World(hnd), o)
         IN  /\ bur' = bur
             /\ Record("next", "cur", None, None, NoArgs, o, <<>>, r.w, r.item, last.res)
    /\ UNCHANGED input

\* The reading operations alone, over every content the input can have.
InitIO == \E content \in Contents : Start(content)

NextIO ==
    \/ Wrap("cur") \/ Default("cur")
    \/ Read("cur") \/ ReadToEnd("cur") \/ ReadToString("cur")
    \/ FillBuf("cur") \/ Consume("cur")
    \/ ReadUntil("cur") \/ ReadLine("cur")
    \/ ToData("cur")
    \/ Split("cur") \/ Lines("cur") \/ SeqNext

SpecIO == InitIO /\ [][NextIO]_vars

\* ------------------------------------------------------------- properties
\* The wrapper the last call left in its slot, and the calls that reached a
\* handle during it.
Cur == bur[last.slot]
IsIo(c) == c.io
IoCalls == SelectSeq(last.calls, IsIo)

IoOps == {"read", "read_to_end", "read_to_string", "write", "write_all",
          "write_fmt", "seek", "fill_buf", "read_until", "read_line",
          "print_line", "write_to_err", "write_all_to_err", "write_fmt_to_err"}
NonRecoveryOps == IoOps \cup {"consume", "ignore", "and", "and_then"}
Terminals == {"ok", "to_data", "to_handle"}

\* C1: a non-recovery operation applied to Bad(e) yields Bad(e) with the same
\* error e, makes no call on any handle and invokes no function; a Good
\* wrapper comes out of a Bad one only through or / or_else.
BadStaysBad ==
    /\ (last.op \in NonRecoveryOps /\ last.recv.tag = "Bad") =>
          /\ Cur.tag = "Bad"
          /\ Cur.err = last.recv.err
          /\ last.calls = <<>>
          /\ last.finv = <<>>
    /\ (last.recv.tag = "Bad" /\ Cur.tag = "Good") => last.op \in {"or", "or_else"}

BadStaysBadSeen ==
    /\ last.op = "read_line"
    /\ last.recv = Bad("E2", "RealWorld")
    /\ Cur = Bad("E2", "RealWorld")
    /\ ncalls > 0

\* C2: an I/O operation on a Good wrapper calls the handle; if a call fails
\* with e the result is Bad(e) and no call follows the failed one; if no call
\* fails the result is Good.  On a file the operation is one call.
FailureIsBad ==
    (last.op \in IoOps /\ last.recv.tag = "Good") =>
        /\ Len(IoCalls) >= 1
        /\ last.recv.io \in Files => Len(IoCalls) = 1
        /\ \A i \in 1..Len(IoCalls) :
              IoCalls[i].err # NoErr =>
                  /\ i = Len(IoCalls)
                  /\ Cur.tag = "Bad"
                  /\ Cur.err = IoCalls[i].err
        /\ (\A i \in 1..Len(IoCalls) : IoCalls[i].err = NoErr) => Cur.tag = "Good"

FailureIsBadSeen ==
    /\ last.op = "write"
    /\ last.recv.tag = "Good"
    /\ Len(IoCalls) = 1
    /\ IoCalls[1].err = "E2"
    /\ Cur = Bad("E2", last.recv.ty)

\* C3: and_then on Bad(e) does not invoke f and yields Bad(e); on Good(v, h)
\* it invokes f once, with v and Good((), h), and yields what f returns; the
\* only calls made are the ones f makes.
AndThenContract ==
    last.op = "and_then" =>
        IF last.recv.tag = "Bad"
        THEN /\ last.finv = <<>>
             /\ Cur.tag = "Bad"
             /\ Cur.err = last.recv.err
             /\ last.calls = <<>>
        ELSE /\ Len(last.finv) = 1
             /\ last.finv[1].data = last.recv.data
             /\ last.finv[1].b = Good(Unit, last.recv.io)
             /\ Cur = last.finv[1].ret
             /\ last.calls = last.finv[1].calls

AndThenContractSeen ==
    /\ last.op = "and_then"
    /\ last.recv.tag = "Good"
    /\ last.recv.data.s # <<>>
    /\ last.a.f.k = "echo"
    /\ Len(last.finv) = 1
    /\ last.finv[1].calls # <<>>
    /\ Cur.tag = "Good"

\* C4: when and / or runs, its alternative is already built, whatever the
\* state of the receiver: a handle the alternative holds has been opened (and,
\* where the alternative is discarded, closed again) and the calls chained on
\* the alternative have been made; the function of and_then / or_else is
\* not invoked when the receiver is Bad / Good.
AlternativeIsBuilt ==
    /\ last.op \in {"and", "or"} =>
          /\ last.alt # None
          /\ (last.alt.tag = "Good" /\ last.alt.io \in Files) =>
                hnd[last.alt.io].st # "unopened"
          /\ (last.alt.tag = "Good" /\ last.alt.io \in Files /\ Cur # last.alt) =>
                hnd[last.alt.io].st = "dropped"
    /\ (last.op = "and_then" /\ last.recv.tag = "Bad") => last.finv = <<>>
    /\ (last.op = "or_else" /\ last.recv.tag = "Good") => last.finv = <<>>

AlternativeIsBuiltSeen ==
    /\ last.op = "and"
    /\ last.recv.tag = "Bad"
    /\ last.alt.tag = "Good"
    /\ last.alt.io \in Files
    /\ last.alt.data.t = "bytes"
    /\ hnd[last.alt.io].st = "dropped"
    /\ ncalls > 0

\* C5: and on Good(v, h) yields the alternative as it is, Good or Bad, and
\* discards v and h; and on Bad(e) yields Bad(e) whatever the alternative.
AndContract ==
    last.op = "and" =>
        IF last.recv.tag = "Good"
        THEN /\ Cur = last.alt
             /\ last.recv.io \in Files => hnd[last.recv.io].st = "dropped"
        ELSE /\ Cur.tag = "Bad"
             /\ Cur.err = last.recv.err

AndContractSeen ==
    /\ last.op = "and"
    /\ last.recv.tag = "Bad"
    /\ last.alt.tag = "Bad"
    /\ last.alt.err # last.recv.err
    /\ Cur.err = last.recv.err

\* C6: or on Bad yields the alternative as it is, Good or Bad; or on
\* Good(v, h) yields Good(v, h) and discards the alternative.
OrContract ==
    last.op = "or" =>
        IF last.recv.tag = "Bad"
        THEN Cur = last.alt
        ELSE /\ Cur = last.recv
             /\ (last.alt.tag = "Good" /\ last.alt.io \in Files) =>
                   hnd[last.alt.io].st = "dropped"
             /\ Cur.io \in Files => hnd[Cur.io].st = "open"

OrContractSeen ==
    /\ last.op = "or"
    /\ last.recv.tag = "Good"
    /\ last.recv.data.t = "bytes"
    /\ last.alt.tag = "Good"
    /\ Cur = last.recv

\* C7: or_else on Bad(e) invokes f once, with e, and yields what f returns;
\* on Good(v, h) it does not invoke f and yields Good(v, h).
OrElseContract ==
    last.op = "or_else" =>
        IF last.recv.tag = "Bad"
        THEN /\ Len(last.finv) = 1
             /\ last.finv[1].err = last.recv.err
             /\ Cur = last.finv[1].ret
             /\ last.calls = last.finv[1].calls
        ELSE /\ last.finv = <<>>
             /\ Cur = last.recv
             /\ last.calls = <<>>

OrElseContractSeen ==
    /\ last.op = "or_else"
    /\ last.recv = Bad("E2", "File")
    /\ last.a.f.k = "reopen"
    /\ Len(last.finv) = 1
    /\ Cur.tag = "Good"

\* C8: on Good(v, h) to_data yields Ok(v), to_handle Ok(h), ok Ok((v, h));
\* on Bad(e) the three yield Err(e); none calls the handle.  wrap(Ok(h))
\* .to_handle() is Ok(h) and wrap(Err(e)).ok() is Err(e).
Extraction ==
    /\ last.op \in Terminals =>
          /\ last.calls = <<>>
          /\ last.recv.tag = "Bad" => last.res = Err(last.recv.err)
          /\ last.recv.tag = "Good" =>
                last.res = CASE last.op = "to_data" -> OkV(last.recv.data)
                             [] last.op = "to_handle" -> OkH(last.recv.io)
                             [] last.op = "ok" -> OkVH(last.recv.data, last.recv.io)
    /\ \A h \in Files : to_handle(wrap(OkH(h)), World(hnd)).res = OkH(h)
    /\ \A e \in Errors : ok(wrap(Err(e)), World(hnd)).res = Err(e)

ExtractionSeen ==
    /\ last.op = "to_data"
    /\ last.recv.tag = "Good"
    /\ last.recv.data.s # <<>>
    /\ last.res = OkV(last.recv.data)

\* C9: ignore on Good(v, h) yields Good((), h), on Bad(e) yields Bad(e), and
\* calls no handle; the handle stays open, and a read on a Good wrapper calls
\* the handle the wrapper holds and keeps it.
IgnoreContract ==
    /\ last.op = "ignore" =>
          /\ last.calls = <<>>
          /\ IF last.recv.tag = "Good"
             THEN /\ Cur = Good(Unit, last.recv.io)
                  /\ hnd[Source(Cur)].st = "open"
             ELSE Cur = Bad(last.recv.err, last.recv.ty)
    /\ (last.op = "read" /\ last.recv.tag = "Good") =>
          /\ \A i \in 1..Len(IoCalls) : IoCalls[i].h = Source(last.recv)
          /\ Cur.tag = "Good" => Cur.io = last.recv.io

IgnoreContractSeen ==
    /\ last.op = "ignore"
    /\ last.recv.tag = "Good"
    /\ last.recv.data.t = "bytes"
    /\ last.recv.data.s # <<>>
    /\ Cur = Good(Unit, last.recv.io)

\* C10: a successful read(n) makes one read call and returns the bytes that
\* call reported: as many as the smaller of n and the bytes available, taken
\* from the input where the handle stood, with none of the zeros the buffer
\* was filled with.
ShortRead ==
    (last.op = "read" /\ last.recv.tag = "Good" /\ Cur.tag = "Good") =>
        LET got == Cur.data.s
            pos == hnd[Source(Cur)].pos
        IN  /\ Len(IoCalls) = 1
            /\ IoCalls[1].m = "read"
            /\ Cur.data.t = "bytes"
            /\ got = IoCalls[1].bytes
            /\ Len(got) = Min(last.a.n, last.got)
            /\ Len(got) <= last.a.n
            /\ got = SubSeq(input, pos - Len(got) + 1, pos)
            /\ \A i \in 1..Len(got) : got[i] # 0

ShortReadSeen ==
    /\ last.op = "read"
    /\ last.recv.tag = "Good"
    /\ Cur.tag = "Good"
    /\ last.a.n = MaxN
    /\ last.got = 1
    /\ Len(Cur.data.s) = 1

\* C11: a read_until(byte) whose call does not fail is Good and returns the
\* input from where the handle stood to where it stands afterwards: that
\* piece ends with the first byte `byte` after the old position, or holds no
\* `byte` and reaches the end of the input.  The next read_until starts where
\* this one stopped, so successive pieces are consecutive and do not overlap.
ReadUntilStep ==
    (last'.op = "read_until" /\ last'.recv.tag = "Good"
        /\ \A i \in 1..Len(last'.calls) : last'.calls[i].err = NoErr) =>
        LET h == last'.recv.io
            from == hnd[h].pos
            to == hnd'[h].pos
            piece == bur'["cur"].data.s
            byte == last'.a.n
        IN  /\ bur'["cur"].tag = "Good"
            /\ bur'["cur"].io = h
            /\ bur'["cur"].data.t = "bytes"
            /\ piece = SubSeq(input, from + 1, to)
            /\ \A i \in 1..(Len(piece) - 1) : piece[i] # byte
            /\ (piece = <<>> \/ piece[Len(piece)] # byte) => to = Len(input)

ReadUntilPieces == [][ReadUntilStep]_vars

\* The second piece of NL 1: the 1, with no delimiter, after the NL.
ReadUntilPiecesSeen ==
    /\ input = <<NL, 1>>
    /\ last.op = "read_until"
    /\ last.a.n = NL
    /\ last.recv = Good(VecU8(<<NL>>), 1)
    /\ Cur = Good(VecU8(<<1>>), 1)

\* The bytes the calls of a log moved, in order.
RECURSIVE Moved(_)
Moved(calls) ==
    IF calls = <<>> THEN <<>> ELSE Head(calls).bytes \o Moved(Tail(calls))

\* C12: write_all(buf) on a Good wrapper is Good((), handle) only when the
\* handle accepted all of buf; when the handle fails the result is Bad with
\* the handle's error and no value, and what the handle accepted is a prefix
\* of buf.
WriteAllPartial ==
    (last.op = "write_all" /\ last.recv.tag = "Good") =>
        LET accepted == Moved(IoCalls)
            buf == last.a.buf
        IN  /\ Len(accepted) <= Len(buf)
            /\ accepted = SubSeq(buf, 1, Len(accepted))
            /\ Cur.tag \in {"Good", "Bad"}
            /\ Cur.tag = "Good" =>
                  /\ accepted = buf
                  /\ Cur = Good(Unit, last.recv.io)
            /\ Cur.tag = "Bad" =>
                  /\ IoCalls # <<>>
                  /\ Cur.err = IoCalls[Len(IoCalls)].err
                  /\ Cur.err \in Errors
                  /\ Cur.data = NoData

WriteAllPartialSeen ==
    /\ last.op = "write_all"
    /\ last.recv.tag = "Good"
    /\ Cur.tag = "Bad"
    /\ Moved(IoCalls) # <<>>
    /\ Len(Moved(IoCalls)) < Len(last.a.buf)

\* The constructor call each constructing function makes.
CtorCall == [wrap_func |-> "open", from_path |-> "from_path", from_addr |-> "from_addr"]

\* C13: wrap maps Ok(h) to Good((), h) and Err(e) to Bad(e) and calls nothing;
\* wrap_func, from_path and from_addr call the constructor once and map its
\* result the same way, the opened handle being the one wrapped; an I/O
\* operation chained on a failed construction yields the same Bad and makes
\* no call.
Construction ==
    /\ last.op = "wrap" =>
          /\ last.calls = <<>>
          /\ last.in.ok => Cur = Good(Unit, last.in.h)
          /\ ~last.in.ok => Cur.tag = "Bad" /\ Cur.err = last.in.err
    /\ last.op \in DOMAIN CtorCall =>
          /\ Len(last.calls) = 1
          /\ last.calls[1].m = CtorCall[last.op]
          /\ last.calls[1].err = NoErr =>
                /\ Cur = Good(Unit, last.calls[1].h)
                /\ hnd[Cur.io].st = "open"
          /\ last.calls[1].err # NoErr =>
                /\ Cur.tag = "Bad"
                /\ Cur.err = last.calls[1].err
    /\ last.op = "burrito" => Cur = Good(Unit, RW) /\ last.calls = <<>>
    /\ (last.op \in IoOps /\ last.recv.tag = "Bad") =>
          /\ Cur.tag = "Bad"
          /\ Cur.err = last.recv.err
          /\ last.calls = <<>>

\* A read_to_string on a Bad wrapper when no handle was ever opened and no
\* call ever made: the wrapper went Bad at its construction.
ConstructionSeen ==
    /\ last.op = "read_to_string"
    /\ last.recv = Bad("E2", "File")
    /\ Cur = Bad("E2", "File")
    /\ ncalls = 0
    /\ \A h \in Files : hnd[h].st = "unopened"

\* C14: split and lines consume the wrapper and call nothing; on Bad(e) they
\* return Err(e) and no sequence, on Good(v, h) Ok of a sequence over h that
\* holds nothing of v, h staying open; the reads are made when the sequence
\* is advanced, on h.
SequencesAreTerminal ==
    /\ last.op \in {"split", "lines"} =>
          /\ last.calls = <<>>
          /\ Cur = None
          /\ last.recv.tag = "Bad" => last.res = Err(last.recv.err)
          /\ last.recv.tag = "Good" =>
                /\ last.res = OkVH(IF last.op = "split" THEN SplitSeq(last.a.n) ELSE LinesSeq,
                                   last.recv.io)
                /\ hnd[last.recv.io].st = "open"
    /\ last.op = "next" =>
          /\ Len(IoCalls) = 1
          /\ IoCalls[1].h = last.res.h
          /\ IoCalls[1].m = "read_until"

SequencesAreTerminalSeen ==
    /\ last.op = "split"
    /\ last.recv.tag = "Good"
    /\ last.recv.data.s # <<>>
    /\ last.res.ok
    /\ hnd[last.res.h].pos > 0
    /\ Remaining(World(hnd), last.res.h) > 0

\* How many guards of stream s are alive after the calls of a log.
RECURSIVE Held(_, _)
Held(calls, s) ==
    IF calls = <<>> THEN 0
    ELSE LET c == calls[Len(calls)]
             before == Held(SubSeq(calls, 1, Len(calls) - 1), s)
         IN  IF c.h # s THEN before
             ELSE IF c.m = "lock" THEN before + 1
             ELSE IF c.m = "unlock" THEN before - 1
             ELSE before

StreamsUsed == {last.calls[i].h : i \in DOMAIN last.calls} \cap Streams

\* C15: an operation on the RealWorld wrapper uses one stream; each call it
\* makes on the stream is made with the stream's lock held, taken during the
\* operation, and the lock is released when the operation returns: no
\* reachable state between two operations has a stream locked.
LockPerCall ==
    /\ \A s \in Streams : ~hnd[s].lock
    /\ (last.recv.tag = "Good" /\ last.recv.io = RW /\ last.op \in IoOps) =>
          /\ Cardinality(StreamsUsed) = 1
          /\ \A s \in Streams : Held(last.calls, s) = 0
          /\ \A i \in DOMAIN last.calls :
                LET c == last.calls[i]
                    held == Held(SubSeq(last.calls, 1, i - 1), c.h)
                IN  /\ c.io => held = 1
                    /\ c.m = "lock" => held = 0
                    /\ c.m = "unlock" => held = 1

LockPerCallSeen ==
    /\ last.op = "print_line"
    /\ last.recv.tag = "Good"
    /\ Cur.tag = "Good"
    /\ \E i \in DOMAIN last.calls : last.calls[i].m = "lock" /\ last.calls[i].h = STDOUT
    /\ ~hnd[STDOUT].lock
    /\ ncalls = MaxCalls

\* The stream each operation on the RealWorld wrapper is routed to.
RouteOf(op) ==
    CASE op \in {"print_line", "write", "write_all", "write_fmt"} -> STDOUT
      [] op \in {"write_to_err", "write_all_to_err", "write_fmt_to_err"} -> STDERR
      [] op \in {"read", "read_to_end", "read_to_string", "read_line"} -> STDIN

\* C16: an operation on a Good RealWorld wrapper touches only its stream:
\* stdout for print_line / write / write_all / write_fmt, stderr for the
\* _to_err operations, stdin for the reads; a print_line(s) that succeeds has
\* written s and one line feed to stdout, and one that fails a prefix of it.
Routing ==
    (last.recv.tag = "Good" /\ last.recv.io = RW /\ last.op \in IoOps) =>
        /\ last.op \in {"print_line", "write", "write_all", "write_fmt",
                        "write_to_err", "write_all_to_err", "write_fmt_to_err",
                        "read", "read_to_end", "read_to_string", "read_line"}
        /\ StreamsUsed = {RouteOf(last.op)}
        /\ \A i \in DOMAIN last.calls : last.calls[i].h \in {RouteOf(last.op), RW}
        /\ RouteOf(last.op) = STDIN =>
              Moved(IoCalls) = SubSeq(input, hnd[STDIN].pos - Len(Moved(IoCalls)) + 1,
                                      hnd[STDIN].pos)
        /\ last.op = "print_line" =>
              LET line == last.a.buf \o <<NL>>
                  out == Moved(IoCalls)
              IN  /\ out = SubSeq(line, 1, Len(out))
                  /\ Cur.tag = "Good" => out = line

RoutingSeen ==
    /\ last.op = "print_line"
    /\ last.recv.tag = "Good"
    /\ last.a.buf = <<1>>
    /\ Cur = Good(Unit, RW)
    /\ Moved(IoCalls) = <<1, NL>>
    /\ \A i \in DOMAIN IoCalls : IoCalls[i].h = STDOUT

\* The owners of file handle h: the live wrappers that hold it and the
\* result just handed to the caller, if it holds it.
Owners(h) ==
    {s \in Slots : bur[s].tag = "Good" /\ bur[s].io = h}
        \cup (IF last.res.ok /\ last.res.h = h THEN {"caller"} ELSE {})

ConsumesReceiver ==
    /\ last'.recv # None =>
          /\ last'.recv = bur[last'.slot]
          /\ last'.op \in Terminals \cup {"split", "lines"} => bur'[last'.slot] = None
    /\ last'.alt # None =>
          /\ last'.alt = bur["alt"]
          /\ bur'["alt"] = None

\* C17: a file handle has at most one owner and a handle that is owned is
\* open; the receiver of every step is the wrapper its slot held, which the
\* step replaces by its product (by nothing, for a terminal one), and the
\* alternative of and / or leaves its slot with the step.
LinearOwnership ==
    /\ [](\A h \in Files :
            /\ Cardinality(Owners(h)) <= 1
            /\ Owners(h) # {} => hnd[h].st = "open")
    /\ [][ConsumesReceiver]_vars

LinearOwnershipSeen ==
    /\ bur["cur"].tag = "Good"
    /\ bur["alt"].tag = "Good"
    /\ bur["cur"].io \in Files
    /\ bur["alt"].io \in Files
    /\ bur["cur"].io # bur["alt"].io
    /\ last.op = "read"
    /\ last.slot = "alt"

\* C18: after an operation that succeeds the value of the wrapper is the
\* operation's own result: the bytes its calls read, the number of bytes its
\* call accepted, the offset the handle stands at, or unit; nothing of the
\* receiver's value is in it.
ValueOverwritten ==
    (last.op \in IoOps \cup {"consume", "ignore"} /\ last.recv.tag = "Good"
        /\ Cur.tag = "Good") =>
        Cur.data =
            CASE last.op \in {"read", "read_to_end", "read_until"} -> VecU8(Moved(IoCalls))
              [] last.op \in {"read_to_string", "read_line"} -> Str(Moved(IoCalls))
              [] last.op \in {"write", "write_to_err"} -> Usize(Len(Moved(IoCalls)))
              [] last.op = "seek" -> U64(hnd[Cur.io].pos)
              [] OTHER -> Unit

\* The second of two reads: its byte alone, after the first read's.
ValueOverwrittenSeen ==
    /\ last.op = "read"
    /\ last.recv.tag = "Good"
    /\ last.recv.data = VecU8(<<1>>)
    /\ Cur.tag = "Good"
    /\ Cur.data = VecU8(<<NL>>)

\* The operations that are one method of Read, Write, Seek or BufRead.
CapabilityOps == {"read", "read_to_end", "read_to_string", "write", "write_all",
                  "write_fmt", "seek", "fill_buf", "consume", "read_until", "read_line"}

\* The calls of the last operation made on the handle the receiver wraps.
OnHandle == SelectSeq(last.calls, LAMBDA c : c.h = last.recv.io)

\* The calls among them that are not made from inside another call on the
\* handle: a provided method of RealWorld (read_to_end, read_to_string,
\* write_all, write_fmt) calls RealWorld's read / write itself.
Nested(c) ==
    /\ last.recv.io = RW
    /\ last.op \in {"read_to_end", "read_to_string", "write_all", "write_fmt"}
    /\ c.m \in {"read", "write"}
Direct == SelectSeq(OnHandle, LAMBDA c : ~Nested(c))

\* C19: a capability operation on a Good wrapper makes one call on the
\* wrapped handle, of the method it is named after, and the operation ends
\* when that call has returned, its result being the call's; on a file that
\* call is all the operation does.  On a Bad wrapper it makes no call.
OneCall ==
    /\ (last.op \in CapabilityOps /\ last.recv.tag = "Good"
          /\ (last.recv.io = RW => last.op # "read_line")) =>
          /\ Len(Direct) = 1
          /\ Direct[1].m = last.op
          /\ last.calls[Len(last.calls)] = Direct[1]
          /\ last.recv.io \in Files => last.calls = Direct
          /\ Direct[1].err = NoErr <=> Cur.tag = "Good"
    /\ (last.op \in CapabilityOps /\ last.recv.tag = "Bad") => last.calls = <<>>

OneCallSeen ==
    /\ last.op = "consume"
    /\ last.recv.tag = "Good"
    /\ last.a.n > 0
    /\ Len(last.calls) = 1
    /\ last.calls[1].m = "consume"
    /\ hnd[last.recv.io].pos > 0
    /\ Cur = Good(Unit, last.recv.io)

\* A dropped file handle stays dropped and receives no call.
DroppedIsGone ==
    \A h \in Files :
        hnd[h].st = "dropped" =>
            /\ hnd'[h] = hnd[h]
            /\ \A i \in DOMAIN last'.calls : last'.calls[i].h # h

FailureDropsHandle ==
    /\ (last.op \in IoOps /\ last.recv.tag = "Good" /\ Cur.tag = "Bad") =>
          /\ Cur = Bad(Cur.err, last.recv.ty)
          /\ last.recv.io \in Files => hnd[last.recv.io].st = "dropped"
    /\ \A s \in Slots :
          (bur[s].tag = "Good" /\ bur[s].io \in Files) => hnd[bur[s].io].st = "open"
    /\ \A i \in DOMAIN IoCalls :
          IoCalls[i].h \in Files => IoCalls[i].h = last.recv.io \/ last.op = "next"
    /\ (last.op = "or_else" /\ last.recv.tag = "Bad") =>
          /\ last.finv[1].data = NoData
          /\ last.finv[1].b = None
          /\ last.finv[1].err = last.recv.err
          /\ Cur = last.finv[1].ret
    /\ (last.op = "or" /\ last.recv.tag = "Bad") => Cur = last.alt

\* C20: an operation that fails on Good(v, h) drops h and leaves Bad with the
\* error alone; or_else hands its function the error and nothing else; a
\* dropped handle never receives a call again, every call being made on the
\* open handle of the receiver; the Good wrapper after a recovery is the
\* alternative or what the recovery function returned.
HandleGoneOnFailure == []FailureDropsHandle /\ [][DroppedIsGone]_vars

\* The first handle failed and was dropped; or_else recovered with a second.
HandleGoneOnFailureSeen ==
    /\ last.op = "or_else"
    /\ last.recv.tag = "Bad"
    /\ Cur.tag = "Good"
    /\ Cur.io = 2
    /\ hnd[1].st = "dropped"
    /\ hnd[2].st = "open"
    /\ ncalls > 0

\* C21: a capability operation that succeeds, ignore, or and or_else on a
\* Good receiver leave a wrapper with the receiver's handle; the wrapper
\* and_then hands to its function has the receiver's handle; to_handle
\* returns the handle of its receiver.  So the handle wrapped at the start of
\* a chain of successful operations is the one to_handle returns at its end.
HandleIdentity ==
    /\ (last.op \in IoOps \cup {"consume", "ignore", "or", "or_else"}
          /\ last.recv.tag = "Good" /\ Cur.tag = "Good") =>
          /\ Cur.io = last.recv.io
          /\ Cur.io # NoHandle
    /\ (last.op \in {"ignore", "or", "or_else"} /\ last.recv.tag = "Good") =>
          Cur.tag = "Good"
    /\ (last.op = "and_then" /\ last.recv.tag = "Good") =>
          /\ Len(last.finv) = 1
          /\ last.finv[1].b.tag = "Good"
          /\ last.finv[1].b.io = last.recv.io
    /\ (last.op = "to_handle" /\ last.recv.tag = "Good") => last.res = OkH(last.recv.io)
    /\ last.op \in {"wrap_func", "from_path", "from_addr"} /\ Cur.tag = "Good" =>
          Cur.io = last.calls[1].h

\* to_handle returns the first handle after the two calls of the chain have
\* read its input to the end; no other handle was opened or used.
HandleIdentitySeen ==
    /\ last.op = "to_handle"
    /\ last.res = OkH(1)
    /\ hnd[1].st = "open"
    /\ hnd[1].pos = Len(input)
    /\ ncalls = 2
    /\ hnd[STDIN].pos = 0
    /\ \A h \in Files \ {1} : hnd[h].st = "unopened"

\* The file handles the two wrappers of the last and / or brought to it.
Brought ==
    {b.io : b \in {x \in {last.recv, last.alt} : x.tag = "Good" /\ x.io \in Files}}

UnselectedIsDropped ==
    last.op \in {"and", "or"} =>
        LET kept == IF Cur.tag = "Good" /\ Cur.io \in Files THEN {Cur.io} ELSE {}
        IN  /\ last.calls = <<>>
            /\ kept \subseteq Brought
            /\ \A h \in kept : hnd[h].st = "open"
            /\ \A h \in Brought \ kept : hnd[h].st = "dropped" /\ Owners(h) = {}
            /\ Cur.tag = "Bad" => \A h \in Brought : hnd[h].st = "dropped"
            /\ (last.op = "and" /\ last.recv.tag = "Good") => last.recv.io \notin kept
            /\ (last.op = "and" /\ last.recv.tag = "Bad") => kept = {}
            /\ (last.op = "or" /\ last.recv.tag = "Good") => last.alt.io \notin kept

\* C22: after and / or the handle of the wrapper that was not selected is
\* dropped: the alternative's when and finds a Bad receiver or or a Good
\* one, the receiver's when and finds it Good.  Of the handles the two
\* wrappers brought, the result holds one if it is Good and none if it is
\* Bad, and a dropped handle never receives a call.
UnselectedDropped == []UnselectedIsDropped /\ [][DroppedIsGone]_vars

\* or kept the Good receiver and dropped the handle of the alternative, which
\* had been opened and read.
UnselectedDroppedSeen ==
    /\ last.op = "or"
    /\ last.recv.tag = "Good"
    /\ last.alt.tag = "Good"
    /\ last.alt.data.s # <<>>
    /\ Brought = {last.recv.io, last.alt.io}
    /\ Cardinality(Brought) = 2
    /\ hnd[last.alt.io].st = "dropped"
    /\ hnd[last.recv.io].st = "open"
    /\ Cur.io = last.recv.io

LockedOutputOps == {"print_line", "write_all_to_err", "write_fmt_to_err"}

\* The bytes the last operation was asked to put out.
OutputText ==
    CASE last.op = "print_line" -> last.a.buf \o <<NL>>
      [] last.op = "write_all_to_err" -> last.a.buf
      [] last.op = "write_fmt_to_err" -> Format(last.a.fmt)

\* The places in the last operation's calls where stream s is unlocked, so
\* that another holder of its lock could write there.
FreePoints(s) ==
    {i \in 0..Len(last.calls) : Held(SubSeq(last.calls, 1, i), s) = 0}

====
